---- MODULE Spec2Model ----
(***************************************************************************)
(* ResolveNow complaint backend (Schema[1].js): the document store, the    *)
(* express handlers and the socket.io broadcast.  Every handler is an      *)
(* async function: each `await` of a store operation is one atomic step of *)
(* the store, and the synchronous code that follows it (checks, emit,      *)
(* response) runs in the step that issues the next store operation.        *)
(***************************************************************************)
EXTENDS Integers, Sequences, FiniteSets, Bags, TLC

\* ---------------------------------------------------------------- bounds
NumProcs == 2
MaxComplaints == 4
AuxComplaints == 1
NumAgents == 1
MaxMessages == 2
MaxFeedback == 1

\* ------------------------------------------------------ program constants
\* `activeAgentCount >= 3`
MaxActive == 3
\* FeedbackSchema.rating: min 1, max 5
RatingMin == 1
RatingMax == 5

Procs == 1..NumProcs
ComplaintIds == 1..MaxComplaints
AuxIds == 1..AuxComplaints
Agents == 1..NumAgents
Statuses == {"Pending", "Assigned", "Resolved"}
Names == {"alice", "bob"}
RatingInputs == 0..(RatingMax + 1)

\* A complaint id with no document in the collection.
NoDoc == "none"
\* `undefined`: a property the object does not have.
Undefined == "undefined"

\* UserSchema documents already registered (id, name, userType).
Users ==
  { [id |-> 1, name |-> "alice", userType |-> "Customer"],
    [id |-> 2, name |-> "bob", userType |-> "Agent"] }

\* jwt.sign({ id: user._id, userType: user.userType }, ...)
LoginToken(u) == [id |-> u.id, userType |-> u.userType]

\* The Authorization header: absent, not verifiable, or a token of login.
NoToken == [id |-> 0, userType |-> "none"]
BadToken == [id |-> 0, userType |-> "invalid"]
Tokens == {NoToken, BadToken} \cup {LoginToken(u) : u \in Users}

\* req.user.name: the decoded payload's `name` property.
UserName(user) == IF "name" \in DOMAIN user THEN user.name ELSE Undefined

\* The registered user a token was issued to.
UserOf(tok) == CHOOSE u \in Users : u.id = tok.id

ErrDuplicate == "Complaint is already assigned to an agent"
ErrCapacity == "Agent has reached maximum limit of 3 active assignments"
ErrNotFound == "Complaint not found"
ErrNoToken == "Access denied. No token provided."
ErrBadToken == "Invalid token."
ErrServer == "server error"

VARIABLES
  complaints,     \* Complaint collection: id -> status, NoDoc when absent
  nextComplaint,  \* next fresh _id of a Complaint document
  assigned,       \* Assigned collection: bag of [agentId, complaintId]
  messages,       \* Message collection, in insertion (sentAt) order
  feedbacks,      \* Feedback collection: bag of [userId, complaintId, agentId, rating]
  pc,             \* per request slot: the await the handler is suspended at
  req,            \* per request slot: the request (route, params, body, user)
  loc,            \* per request slot: the handler's local variables
  out,            \* per request slot: what the handler emitted and answered, in order
  stale           \* per request slot: another request wrote the record since this one's write

store == <<complaints, nextComplaint, assigned, messages, feedbacks>>
vars == <<complaints, nextComplaint, assigned, messages, feedbacks, pc, req, loc, out, stale>>

NullDoc == [id |-> 0, status |-> NoDoc]
NoReq ==
  [kind |-> "none", complaintId |-> 0, agentId |-> 0, status |-> "",
   name |-> "", rating |-> 0, user |-> NoToken]
NoMsg == [id |-> 0, complaintId |-> 0, name |-> "", read |-> FALSE]
\* hadDoc is history, not a variable of the handler: whether the complaint of a
\* create-assignment had a document when the request arrived.
NoLoc == [existing |-> FALSE, count |-> 0, doc |-> NullDoc, msg |-> NoMsg, agentId |-> 0,
          hadDoc |-> FALSE]

Emit(event, payload) == [type |-> "emit", event |-> event, payload |-> payload]
Res(code, error) == [type |-> "res", code |-> code, error |-> error]

\* The document findById returns: the complaint, or null.
FindById(c) == IF c \in ComplaintIds /\ complaints[c] # NoDoc
               THEN [id |-> c, status |-> complaints[c]] ELSE NullDoc

\* const auth = (req, res, next) => ...
AuthCode(tok) == IF tok = NoToken THEN 401 ELSE IF tok = BadToken THEN 400 ELSE 200
AuthError(tok) == IF tok = NoToken THEN ErrNoToken ELSE ErrBadToken

Init ==
  /\ complaints = [c \in ComplaintIds |-> NoDoc]
  /\ nextComplaint = 1
  /\ assigned = EmptyBag
  /\ messages = <<>>
  /\ feedbacks = EmptyBag
  /\ pc = [p \in Procs |-> "idle"]
  /\ req = [p \in Procs |-> NoReq]
  /\ loc = [p \in Procs |-> NoLoc]
  /\ out = [p \in Procs |-> <<>>]
  /\ stale = [p \in Procs |-> FALSE]

\* The request of slot p is answered in this step without touching the store.
Reject(p, r, code, error) ==
  /\ pc' = [pc EXCEPT ![p] = "done"]
  /\ req' = [req EXCEPT ![p] = r]
  /\ out' = [out EXCEPT ![p] = Append(out[p], Res(code, error))]
  /\ UNCHANGED <<store, loc, stale>>

\* The complaint a suspended request has written and not yet announced.
Written(q) ==
  IF pc[q] \in {"cc_emit", "upd_emit", "del_emit"} THEN loc[q].doc.id
  ELSE IF pc[q] \in {"as_reread", "as_emit"} THEN req[q].complaintId
  ELSE 0

\* Slot p writes complaint c: the requests suspended after a write of c are stale.
Touch(p, c) ==
  [q \in Procs |-> IF q # p /\ Written(q) = c THEN TRUE ELSE stale[q]]

\* ------------------------------------------------ POST /api/complaints
\* The body carries no status: ComplaintSchema's default 'Pending' is stored.
CreateComplaint(p, tok, ids) ==
  /\ pc[p] = "idle"
  /\ LET r == [NoReq EXCEPT !.kind = "createComplaint"] IN
     IF AuthCode(tok) # 200 THEN Reject(p, r, AuthCode(tok), AuthError(tok))
     ELSE /\ nextComplaint \in ids
          /\ complaints' = [complaints EXCEPT ![nextComplaint] = "Pending"]
          /\ nextComplaint' = nextComplaint + 1
          /\ loc' = [loc EXCEPT ![p].doc = [id |-> nextComplaint, status |-> "Pending"]]
          /\ req' = [req EXCEPT ![p] = r]
          /\ pc' = [pc EXCEPT ![p] = "cc_emit"]
          /\ stale' = Touch(p, nextComplaint)
          /\ UNCHANGED <<assigned, messages, feedbacks, out>>

CreateComplaintEmit(p) ==
  /\ pc[p] = "cc_emit"
  /\ out' = [out EXCEPT ![p] = <<Emit("complaintCreated", loc[p].doc), Res(201, "")>>]
  /\ pc' = [pc EXCEPT ![p] = "done"]
  /\ UNCHANGED <<store, req, loc, stale>>

\* ------------------------------------------------ PUT /api/complaints/:id
\* findByIdAndUpdate(id, body, { new: true }) with body = { status: s }.
UpdateComplaint(p, c, s) ==
  /\ pc[p] = "idle"
  /\ req' = [req EXCEPT ![p] = [NoReq EXCEPT !.kind = "updateComplaint",
                                            !.complaintId = c, !.status = s]]
  /\ IF complaints[c] # NoDoc
     THEN /\ complaints' = [complaints EXCEPT ![c] = s]
          /\ loc' = [loc EXCEPT ![p].doc = [id |-> c, status |-> s]]
          /\ stale' = Touch(p, c)
     ELSE /\ loc' = [loc EXCEPT ![p].doc = NullDoc]
          /\ UNCHANGED <<complaints, stale>>
  /\ pc' = [pc EXCEPT ![p] = "upd_emit"]
  /\ UNCHANGED <<nextComplaint, assigned, messages, feedbacks, out>>

UpdateComplaintEmit(p) ==
  /\ pc[p] = "upd_emit"
  /\ out' = [out EXCEPT ![p] =
       IF loc[p].doc = NullDoc THEN <<Res(404, ErrNotFound)>>
       ELSE <<Emit("complaintUpdated", loc[p].doc), Res(200, "")>>]
  /\ pc' = [pc EXCEPT ![p] = "done"]
  /\ UNCHANGED <<store, req, loc, stale>>

\* ------------------------------------------------ DELETE /api/complaints/:id
\* Faulty variant: the delete cascades to the complaint's assignments.
DeleteEffect_Cascade(c) ==
  /\ complaints' = [complaints EXCEPT ![c] = NoDoc]
  /\ assigned' = [r \in {x \in BagToSet(assigned) : x.complaintId # c} |-> assigned[r]]
  /\ UNCHANGED <<nextComplaint, messages, feedbacks>>

\* What findByIdAndDelete leaves of the collections.
DeleteEffect(c) ==
  /\ complaints' = [complaints EXCEPT ![c] = NoDoc]
  /\ UNCHANGED <<nextComplaint, assigned, messages, feedbacks>>

DeleteComplaint(p, tok, c) ==
  /\ pc[p] = "idle"
  /\ LET r == [NoReq EXCEPT !.kind = "deleteComplaint", !.complaintId = c] IN
     IF AuthCode(tok) # 200 THEN Reject(p, r, AuthCode(tok), AuthError(tok))
     ELSE /\ req' = [req EXCEPT ![p] = r]
          /\ loc' = [loc EXCEPT ![p].doc = FindById(c)]
          /\ DeleteEffect(c)
          /\ stale' = IF complaints[c] # NoDoc THEN Touch(p, c) ELSE stale
          /\ pc' = [pc EXCEPT ![p] = "del_emit"]
          /\ UNCHANGED out

\* Faulty variant: the handler answers without the emit.
DeleteOutput_NoEmit(doc, id) ==
  IF doc = NullDoc THEN <<Res(404, ErrNotFound)>> ELSE <<Res(200, "")>>

\* The notifications and the answer of the delete handler.
DeleteOutput(doc, id) ==
  IF doc = NullDoc THEN <<Res(404, ErrNotFound)>>
  ELSE <<Emit("complaintDeleted", id), Res(200, "")>>

DeleteComplaintEmit(p) ==
  /\ pc[p] = "del_emit"
  /\ out' = [out EXCEPT ![p] = DeleteOutput(loc[p].doc, req[p].complaintId)]
  /\ pc' = [pc EXCEPT ![p] = "done"]
  /\ UNCHANGED <<store, req, loc, stale>>

\* ------------------------------------------------ POST /api/assigned
\* Faulty variant: the duplicate pre-check finds nothing.
HasAssignment_Skipped(c) == FALSE

\* Assigned.findOne({ complaintId }) finds a document.
HasAssignment(c) == \E r \in BagToSet(assigned) : r.complaintId = c

\* Faulty variant: the status filter is dropped, every populated assignment counts.
IsActive_AnyStatus(c) == complaints[c] # NoDoc

\* a => a.complaintId && a.complaintId.status !== 'Resolved', on the populated
\* complaint (null when the referenced complaint has no document).
IsActive(c) == complaints[c] # NoDoc /\ complaints[c] # "Resolved"

\* Assigned.find({ agentId }).populate('complaintId'), filtered: its length.
ActiveAgentCount(a) ==
  LET hits == {r \in BagToSet(assigned) : r.agentId = a /\ IsActive(r.complaintId)}
      sub == [r \in hits |-> assigned[r]]
  IN BagCardinality(sub)

\* Faulty variant: the limit is compared with > instead of >=.
AtCapacity_OffByOne(n) == n > MaxActive

\* Faulty variant: the limit test never rejects.
AtCapacity_Never(n) == FALSE

\* if (activeAgentCount >= 3)
AtCapacity(n) == n >= MaxActive

\* Faulty variant: the unique index is missing, no insert is rejected.
DuplicateKey_NoIndex(c) == FALSE

\* The unique index on Assigned.complaintId rejects the insert (code 11000).
DuplicateKey(c) == \E r \in BagToSet(assigned) : r.complaintId = c

AssignBegin(p, tok, c, a) ==
  /\ pc[p] = "idle"
  /\ LET r == [NoReq EXCEPT !.kind = "assign", !.complaintId = c, !.agentId = a] IN
     IF AuthCode(tok) # 200 THEN Reject(p, r, AuthCode(tok), AuthError(tok))
     ELSE /\ req' = [req EXCEPT ![p] = r]
          /\ loc' = [loc EXCEPT ![p].existing = HasAssignment(c),
                                ![p].hadDoc = (complaints[c] # NoDoc)]
          /\ pc' = [pc EXCEPT ![p] = "as_count"]
          /\ UNCHANGED <<store, out, stale>>

\* if (existingAssignment) return 400; else the agent's assignments are read.
\* populate's second query is taken together with the find.
AssignCount(p) ==
  /\ pc[p] = "as_count"
  /\ IF loc[p].existing
     THEN Reject(p, req[p], 400, ErrDuplicate)
     ELSE /\ loc' = [loc EXCEPT ![p].count = ActiveAgentCount(req[p].agentId)]
          /\ pc' = [pc EXCEPT ![p] = "as_save"]
          /\ UNCHANGED <<store, req, out, stale>>

\* if (activeAgentCount >= 3) return 400; else newAssignment.save(), whose
\* duplicate-key error the catch block answers.
AssignSave(p) ==
  /\ pc[p] = "as_save"
  /\ IF AtCapacity(loc[p].count)
     THEN Reject(p, req[p], 400, ErrCapacity)
     ELSE IF DuplicateKey(req[p].complaintId)
     THEN Reject(p, req[p], 400, ErrDuplicate)
     ELSE /\ assigned' = assigned (+) SetToBag({[agentId |-> req[p].agentId,
                                                 complaintId |-> req[p].complaintId]})
          /\ pc' = [pc EXCEPT ![p] = "as_update"]
          /\ UNCHANGED <<complaints, nextComplaint, messages, feedbacks, req, loc, out, stale>>

\* await Complaint.findByIdAndUpdate(complaintId, { status: 'Assigned' })
AssignUpdateStatus(p) ==
  /\ pc[p] = "as_update"
  /\ LET c == req[p].complaintId IN
     IF complaints[c] # NoDoc
     THEN /\ complaints' = [complaints EXCEPT ![c] = "Assigned"]
          /\ stale' = Touch(p, c)
     ELSE UNCHANGED <<complaints, stale>>
  /\ pc' = [pc EXCEPT ![p] = "as_reread"]
  /\ UNCHANGED <<nextComplaint, assigned, messages, feedbacks, req, loc, out>>

\* const updatedComplaint = await Complaint.findById(complaintId)
AssignReread(p) ==
  /\ pc[p] = "as_reread"
  /\ loc' = [loc EXCEPT ![p].doc = FindById(req[p].complaintId)]
  /\ pc' = [pc EXCEPT ![p] = "as_emit"]
  /\ UNCHANGED <<store, req, out, stale>>

\* ioInstance.emit('complaintUpdated', updatedComplaint); res.status(201)
AssignEmit(p) ==
  /\ pc[p] = "as_emit"
  /\ out' = [out EXCEPT ![p] = <<Emit("complaintUpdated", loc[p].doc), Res(201, "")>>]
  /\ pc' = [pc EXCEPT ![p] = "done"]
  /\ UNCHANGED <<store, req, loc, stale>>

\* ------------------------------------------------ POST /api/messages
CreateMessage(p, c, n) ==
  /\ pc[p] = "idle"
  /\ Len(messages) < MaxMessages
  /\ LET m == [complaintId |-> c, name |-> n, read |-> FALSE] IN
     /\ messages' = Append(messages, m)
     /\ loc' = [loc EXCEPT ![p].msg = [id |-> Len(messages) + 1, complaintId |-> c,
                                       name |-> n, read |-> FALSE]]
  /\ req' = [req EXCEPT ![p] = [NoReq EXCEPT !.kind = "createMessage",
                                            !.complaintId = c, !.name = n]]
  /\ pc' = [pc EXCEPT ![p] = "msg_emit"]
  /\ UNCHANGED <<complaints, nextComplaint, assigned, feedbacks, out, stale>>

CreateMessageEmit(p) ==
  /\ pc[p] = "msg_emit"
  /\ out' = [out EXCEPT ![p] = <<Emit("newMessage", loc[p].msg), Res(201, "")>>]
  /\ pc' = [pc EXCEPT ![p] = "done"]
  /\ UNCHANGED <<store, req, loc, stale>>

\* ------------------------------------------------ PUT /api/messages/read/:complaintId
\* { name: { $ne: userName } }: an undefined operand is sent as null, and
\* every stored name (a required string) differs from null.
NameNe(name, userName) == IF userName = Undefined THEN TRUE ELSE name # userName

\* The filter { complaintId, name: { $ne: userName }, read: false }.
MarkReadFilter(m, c, userName) ==
  m.complaintId = c /\ NameNe(m.name, userName) /\ m.read = FALSE

\* Message.updateMany(filter, { $set: { read: true } })
UpdateManyRead(msgs, c, userName) ==
  [i \in DOMAIN msgs |->
     IF MarkReadFilter(msgs[i], c, userName) THEN [msgs[i] EXCEPT !.read = TRUE]
     ELSE msgs[i]]

MarkRead(p, tok, c) ==
  /\ pc[p] = "idle"
  /\ LET r == [NoReq EXCEPT !.kind = "markRead", !.complaintId = c, !.user = tok] IN
     IF AuthCode(tok) # 200 THEN Reject(p, r, AuthCode(tok), AuthError(tok))
     ELSE /\ req' = [req EXCEPT ![p] = r]
          /\ messages' = UpdateManyRead(messages, c, UserName(tok))
          /\ pc' = [pc EXCEPT ![p] = "mr_res"]
          /\ UNCHANGED <<complaints, nextComplaint, assigned, feedbacks, loc, out, stale>>

MarkReadRespond(p) ==
  /\ pc[p] = "mr_res"
  /\ out' = [out EXCEPT ![p] = <<Res(200, "")>>]
  /\ pc' = [pc EXCEPT ![p] = "done"]
  /\ UNCHANGED <<store, req, loc, stale>>

\* ------------------------------------------------ POST /api/feedback
\* Faulty variant: the max validator is missing.
RatingValid_NoMax(r) == r >= RatingMin

\* rating: { type: Number, required: true, min: 1, max: 5 }
RatingValid(r) == r >= RatingMin /\ r <= RatingMax

\* assignment ? assignment.agentId : null  (0 stands for null)
AssignedAgent(c) ==
  IF HasAssignment(c)
  THEN (CHOOSE r \in BagToSet(assigned) : r.complaintId = c).agentId
  ELSE 0

CreateFeedback(p, tok, c, rating) ==
  /\ pc[p] = "idle"
  /\ LET r == [NoReq EXCEPT !.kind = "createFeedback", !.complaintId = c,
                            !.rating = rating, !.user = tok] IN
     IF AuthCode(tok) # 200 THEN Reject(p, r, AuthCode(tok), AuthError(tok))
     ELSE /\ req' = [req EXCEPT ![p] = r]
          /\ loc' = [loc EXCEPT ![p].agentId = AssignedAgent(c)]
          /\ pc' = [pc EXCEPT ![p] = "fb_save"]
          /\ UNCHANGED <<store, out, stale>>

\* newFeedback.save(): the schema validators run before the insert.
CreateFeedbackSave(p) ==
  /\ pc[p] = "fb_save"
  /\ IF ~RatingValid(req[p].rating)
     THEN Reject(p, req[p], 500, ErrServer)
     ELSE /\ BagCardinality(feedbacks) < MaxFeedback
          /\ feedbacks' = feedbacks (+) SetToBag({[userId |-> req[p].user.id,
                                                   complaintId |-> req[p].complaintId,
                                                   agentId |-> loc[p].agentId,
                                                   rating |-> req[p].rating]})
          /\ out' = [out EXCEPT ![p] = <<Res(201, "")>>]
          /\ pc' = [pc EXCEPT ![p] = "done"]
          /\ UNCHANGED <<complaints, nextComplaint, assigned, messages, req, loc, stale>>

\* ------------------------------------------------ the client takes the response
Return(p) ==
  /\ pc[p] = "done"
  /\ pc' = [pc EXCEPT ![p] = "idle"]
  /\ req' = [req EXCEPT ![p] = NoReq]
  /\ loc' = [loc EXCEPT ![p] = NoLoc]
  /\ out' = [out EXCEPT ![p] = <<>>]
  /\ stale' = [stale EXCEPT ![p] = FALSE]
  /\ UNCHANGED store

\* ------------------------------------------------ specifications
\* Concurrent complaint creation and assignment.
Next ==
  \E p \in Procs :
    \/ \E tok \in Tokens : CreateComplaint(p, tok, ComplaintIds)
    \/ CreateComplaintEmit(p)
    \/ \E tok \in Tokens, c \in ComplaintIds, a \in Agents : AssignBegin(p, tok, c, a)
    \/ AssignCount(p)
    \/ AssignSave(p)
    \/ AssignUpdateStatus(p)
    \/ AssignReread(p)
    \/ AssignEmit(p)
    \/ Return(p)

Spec == Init /\ [][Next]_vars

\* One request at a time: a request starts only when no other is in flight
\* and every response has been taken.
Alone(p) == \A q \in Procs \ {p} : pc[q] = "idle"

NextSeq ==
  \E p \in Procs :
    /\ Alone(p)
    /\ \/ \E tok \in Tokens : CreateComplaint(p, tok, ComplaintIds)
       \/ CreateComplaintEmit(p)
       \/ \E c \in ComplaintIds, s \in Statuses : UpdateComplaint(p, c, s)
       \/ UpdateComplaintEmit(p)
       \/ \E tok \in Tokens, c \in ComplaintIds : DeleteComplaint(p, tok, c)
       \/ DeleteComplaintEmit(p)
       \/ \E tok \in Tokens, c \in ComplaintIds, a \in Agents : AssignBegin(p, tok, c, a)
       \/ AssignCount(p)
       \/ AssignSave(p)
       \/ AssignUpdateStatus(p)
       \/ AssignReread(p)
       \/ AssignEmit(p)
       \/ Return(p)

SpecSeq == Init /\ [][NextSeq]_vars

\* Concurrent requests of every notifying handler on a small store.
NextNotify ==
  \E p \in Procs :
    \/ \E tok \in Tokens : CreateComplaint(p, tok, AuxIds)
    \/ CreateComplaintEmit(p)
    \/ \E c \in AuxIds, s \in Statuses : UpdateComplaint(p, c, s)
    \/ UpdateComplaintEmit(p)
    \/ \E tok \in Tokens, c \in AuxIds : DeleteComplaint(p, tok, c)
    \/ DeleteComplaintEmit(p)
    \/ \E tok \in Tokens, c \in AuxIds, a \in Agents : AssignBegin(p, tok, c, a)
    \/ AssignCount(p)
    \/ AssignSave(p)
    \/ AssignUpdateStatus(p)
    \/ AssignReread(p)
    \/ AssignEmit(p)
    \/ \E c \in AuxIds, n \in Names : CreateMessage(p, c, n)
    \/ CreateMessageEmit(p)
    \/ Return(p)

SpecNotify == Init /\ [][NextNotify]_vars

\* Messaging: create and mark read.
NextMsg ==
  \E p \in Procs :
    \/ \E c \in ComplaintIds, n \in Names : CreateMessage(p, c, n)
    \/ CreateMessageEmit(p)
    \/ \E tok \in Tokens, c \in ComplaintIds : MarkRead(p, tok, c)
    \/ MarkReadRespond(p)
    \/ Return(p)

SpecMsg == Init /\ [][NextMsg]_vars

\* Feedback with every rating input, one request at a time.
NextFeedback ==
  \E p \in Procs :
    /\ Alone(p)
    /\ \/ \E tok \in Tokens, c \in AuxIds, r \in RatingInputs : CreateFeedback(p, tok, c, r)
       \/ CreateFeedbackSave(p)
       \/ Return(p)

SpecFeedback == Init /\ [][NextFeedback]_vars

\* Deletion next to assignments, messages and feedback, one request at a time.
FrameTokens == {NoToken, BadToken, LoginToken(CHOOSE u \in Users : u.name = "alice")}

NextFrame ==
  \E p \in Procs :
    /\ Alone(p)
    /\ \/ \E tok \in Tokens : CreateComplaint(p, tok, AuxIds)
       \/ CreateComplaintEmit(p)
       \/ \E tok \in Tokens, c \in AuxIds : DeleteComplaint(p, tok, c)
       \/ DeleteComplaintEmit(p)
       \/ \E tok \in Tokens, c \in AuxIds, a \in Agents : AssignBegin(p, tok, c, a)
       \/ AssignCount(p)
       \/ AssignSave(p)
       \/ AssignUpdateStatus(p)
       \/ AssignReread(p)
       \/ AssignEmit(p)
       \/ \E c \in AuxIds : CreateMessage(p, c, "alice")
       \/ CreateMessageEmit(p)
       \/ \E tok \in FrameTokens, c \in AuxIds : CreateFeedback(p, tok, c, RatingMax)
       \/ CreateFeedbackSave(p)
       \/ Return(p)

SpecFrame == Init /\ [][NextFrame]_vars

\* ------------------------------------------------ observations
IsDone(p, kind) == pc[p] = "done" /\ req[p].kind = kind

\* The answer of a finished request: the last thing its handler put out.
Response(p) == out[p][Len(out[p])]

\* The request went past the auth middleware.
Admitted(p) == Response(p).error \notin {ErrNoToken, ErrBadToken}

\* Assignment documents that reference complaint c.
AssignmentsOf(c) ==
  LET hits == {r \in BagToSet(assigned) : r.complaintId = c}
  IN BagCardinality([r \in hits |-> assigned[r]])

\* Assignment documents of agent a whose complaint exists and is not Resolved,
\* leaving out those of the complaints in `except`.
ActiveAssignments(a, except) ==
  LET hits == {r \in BagToSet(assigned) :
                 /\ r.agentId = a
                 /\ r.complaintId \notin except
                 /\ complaints[r.complaintId] \notin {NoDoc, "Resolved"}}
  IN BagCardinality([r \in hits |-> assigned[r]])

\* Slots whose create-assignment request has inserted its Assignment for c.
Inserted(c) ==
  {p \in Procs : /\ req[p].kind = "assign"
                 /\ req[p].complaintId = c
                 /\ \/ pc[p] \in {"as_update", "as_reread", "as_emit"}
                    \/ pc[p] = "done" /\ Response(p).code = 201}

C2_CapacityAfterCreate ==
  \A p \in Procs :
    (IsDone(p, "assign") /\ Response(p).code = 201) =>
      ActiveAssignments(req[p].agentId, {}) <= 3

\* A create-assignment just succeeded and filled the agent's third active place.
C2_Witness ==
  \E p \in Procs :
    /\ IsDone(p, "assign") /\ Response(p).code = 201
    /\ ActiveAssignments(req[p].agentId, {}) = 3

\* ------------------------------------------------ C4
\* C4: with requests running one at a time, the capacity decision follows the
\* live status of the agent's assigned complaints: a request is answered with
\* the capacity error only while 3 or more of the agent's Assignments are on
\* existing, not 'Resolved' complaints, and it is answered 201 only when fewer
\* than 3 of the agent's other Assignments are; Resolved ones do not count.
C4_LiveCapacity ==
  \A p \in Procs :
    IsDone(p, "assign") =>
      /\ Response(p).error = ErrCapacity =>
           /\ Response(p).code = 400
           /\ ActiveAssignments(req[p].agentId, {}) >= 3
           /\ AssignmentsOf(req[p].complaintId) = 0
      /\ Response(p).code = 201 =>
           ActiveAssignments(req[p].agentId, {req[p].complaintId}) < 3
      /\ (Admitted(p) /\ AssignmentsOf(req[p].complaintId) = 0) =>
           /\ Response(p).error = ErrCapacity
           /\ ActiveAssignments(req[p].agentId, {}) >= 3

\* The agent has four Assignments, one of them on a Resolved complaint, and
\* the create-assignment that added the fourth was answered 201.
C4_Witness ==
  \E p \in Procs :
    /\ IsDone(p, "assign") /\ Response(p).code = 201
    /\ ActiveAssignments(req[p].agentId, {}) = 3
    /\ \E r \in BagToSet(assigned) :
         /\ r.agentId = req[p].agentId
         /\ complaints[r.complaintId] = "Resolved"
    /\ Cardinality({r \in BagToSet(assigned) : r.agentId = req[p].agentId}) = 4

\* ------------------------------------------------ C8
\* C8: every create-assignment that inserted had itself read fewer than 3
\* active assignments for its agent; over-commitment comes from requests
\* reading the count before each other's insert, not from a failed check.
C8_EachReadBelowLimit ==
  \A p \in Procs :
    (req[p].kind = "assign" /\ p \in Inserted(req[p].complaintId)) =>
      loc[p].count < 3

\* Two requests for one agent and two complaints both read a count of 2, both
\* inserted, and the agent now has 4 assignments on complaints not Resolved.
C8_Witness ==
  \E p, q \in Procs :
    /\ p # q
    /\ pc[p] = "as_update" /\ pc[q] = "as_update"
    /\ req[p].agentId = req[q].agentId
    /\ req[p].complaintId # req[q].complaintId
    /\ loc[p].count = 2 /\ loc[q].count = 2
    /\ ActiveAssignments(req[p].agentId, {}) > 3

\* ------------------------------------------------ C10
\* The step of slot p answers a create-assignment with one of the two
\* domain errors.
RejectedNow(p) ==
  /\ pc[p] # "done" /\ pc'[p] = "done"
  /\ req'[p].kind = "assign"
  /\ out'[p][Len(out'[p])].error \in {ErrDuplicate, ErrCapacity}

\* C10: a create-assignment answered with the duplicate or the capacity error
\* wrote nothing and emitted nothing: none of its steps up to and including
\* the answer changes a collection, and the answer is all it put out; and a
\* request whose complaint has an Assignment when the pre-check reads is
\* answered with the duplicate error whatever the agent's load.
C10_RejectedHasNoEffect ==
  [][\A p \in Procs :
       /\ RejectedNow(p) =>
            /\ pc[p] \in {"as_count", "as_save"}
            /\ store' = store
            /\ Len(out'[p]) = 1
            /\ out'[p][1].code = 400
       /\ (pc'[p] \in {"as_count", "as_save"} /\ pc[p] # pc'[p]) => store' = store
       /\ (pc[p] = "idle" /\ pc'[p] = "as_count") =>
            loc'[p].existing = (AssignmentsOf(req'[p].complaintId) > 0)
       /\ (RejectedNow(p) /\ loc[p].existing) =>
            out'[p][1].error = ErrDuplicate
    ]_vars

\* A request for an already assigned complaint and an agent at capacity was
\* answered with the duplicate error.
C10_Witness ==
  \E p \in Procs :
    /\ IsDone(p, "assign")
    /\ Response(p).error = ErrDuplicate
    /\ loc[p].existing
    /\ ActiveAssignments(req[p].agentId, {}) >= 3

\* ------------------------------------------------ C3
\* C3: every create-assignment answered 201 for a complaint C that had a
\* document when the request arrived emitted 'complaintUpdated' with complaint
\* C in status 'Assigned'.
C3_AssignedNotified ==
  \A p \in Procs :
    (IsDone(p, "assign") /\ Response(p).code = 201 /\ loc[p].hadDoc) =>
      /\ out[p][1].event = "complaintUpdated"
      /\ out[p][1].payload = [id |-> req[p].complaintId, status |-> "Assigned"]

\* ------------------------------------------------ C9
\* A read of the store shows the write that notification e of slot p announces:
\* the created complaint or message is there, the updated complaint reads as
\* the payload says, the deleted complaint has no document.
ReadAgrees(p, e) ==
  IF e.event = "complaintDeleted" THEN complaints[e.payload] = NoDoc
  ELSE IF e.event = "newMessage"
  THEN /\ e.payload.id \in DOMAIN messages
       /\ messages[e.payload.id].complaintId = e.payload.complaintId
       /\ messages[e.payload.id].name = e.payload.name
  ELSE IF e.event = "complaintCreated"
  THEN e.payload.id \in ComplaintIds /\ complaints[e.payload.id] # NoDoc
  ELSE FindById(req[p].complaintId) = e.payload

\* The step of slot p is the synchronous tail of a handler that answers success.
AnswersSuccess(p) ==
  /\ pc[p] # "done" /\ pc'[p] = "done"
  /\ out'[p][Len(out'[p])].code \in {200, 201}
  /\ req[p].kind \in {"createComplaint", "updateComplaint", "deleteComplaint",
                      "assign", "createMessage"}

\* C9 as stated: a handler that answers success has emitted exactly one
\* notification before the response, and at that moment a read of the store
\* shows the write the notification announces.
C9_NotificationReflectsStore ==
  [][\A p \in Procs :
       AnswersSuccess(p) =>
         /\ Len(out'[p]) = 2
         /\ out'[p][1].type = "emit" /\ out'[p][2].type = "res"
         /\ ReadAgrees(p, out'[p][1])
    ]_vars

\* C9 amended: the notification comes after the handler's write and before its
\* response, and a read of the store at that moment agrees with it unless
\* another request has written the same complaint since that write.
C9_NotificationAfterWrite ==
  [][\A p \in Procs :
       AnswersSuccess(p) =>
         /\ Len(out'[p]) = 2
         /\ out'[p][1].type = "emit" /\ out'[p][2].type = "res"
         /\ stale[p] \/ ReadAgrees(p, out'[p][1])
         /\ req[p].kind = "assign" => AssignmentsOf(req[p].complaintId) > 0
    ]_vars

\* A complaint was created, another request deleted it before the emit, and
\* 'complaintCreated' has been emitted for it.
C9_Witness ==
  \E p \in Procs :
    /\ IsDone(p, "createComplaint")
    /\ Response(p).code = 201
    /\ stale[p]
    /\ out[p][1].event = "complaintCreated"
    /\ complaints[out[p][1].payload.id] = NoDoc

\* ------------------------------------------------ C7
\* C7: the delete handler removes the complaint document and nothing else:
\* assignments, messages, feedback and the other complaints are as before;
\* for a complaint that had a document it emits 'complaintDeleted' once, with
\* the id as payload, and answers 200; for one that had none it changes
\* nothing, emits nothing and answers 404.
C7_DeleteFrame ==
  [][\A p \in Procs :
       /\ (pc[p] = "idle" /\ pc'[p] = "del_emit") =>
            /\ assigned' = assigned
            /\ messages' = messages
            /\ feedbacks' = feedbacks
            /\ complaints' = [complaints EXCEPT ![req'[p].complaintId] = NoDoc]
            /\ (loc'[p].doc.id # 0) = (complaints[req'[p].complaintId] # NoDoc)
       /\ (pc[p] = "del_emit" /\ pc'[p] = "done") =>
            /\ store' = store
            /\ IF loc[p].doc.id # 0
               THEN /\ Len(out'[p]) = 2
                    /\ out'[p][1].type = "emit"
                    /\ out'[p][1].event = "complaintDeleted"
                    /\ out'[p][1].payload = req[p].complaintId
                    /\ out'[p][2].type = "res" /\ out'[p][2].code = 200
               ELSE /\ Len(out'[p]) = 1
                    /\ out'[p][1].type = "res" /\ out'[p][1].code = 404
    ]_vars

\* A delete was answered 200 and the complaint's assignment, a message and a
\* feedback on it are still stored.
C7_Witness ==
  \E p \in Procs :
    /\ IsDone(p, "deleteComplaint")
    /\ Response(p).code = 200
    /\ complaints[req[p].complaintId] = NoDoc
    /\ AssignmentsOf(req[p].complaintId) = 1
    /\ \E i \in DOMAIN messages : messages[i].complaintId = req[p].complaintId
    /\ \E f \in BagToSet(feedbacks) : f.complaintId = req[p].complaintId

\* ------------------------------------------------ C6
\* C6: every stored Feedback has a rating from 1 to 5, and a create-feedback
\* whose rating is outside 1..5 is answered with an error.
C6_RatingBounds ==
  /\ \A f \in BagToSet(feedbacks) : f.rating >= 1 /\ f.rating <= 5
  /\ \A p \in Procs :
       (IsDone(p, "createFeedback") /\ (req[p].rating < 1 \/ req[p].rating > 5)) =>
         Response(p).code >= 400

\* A create-feedback with rating 6 went past auth and was answered 500.
C6_Witness ==
  \E p \in Procs :
    /\ IsDone(p, "createFeedback")
    /\ req[p].rating = 6
    /\ Response(p).code = 500
    /\ feedbacks = EmptyBag

\* ------------------------------------------------ C5
\* C5: mark-read for complaint C by the caller whose display name is N sets
\* read on exactly the messages of C whose sender is not N, leaves the
\* messages N sent and those of other complaints as they are, and a second
\* identical update changes nothing.
C5_MarkReadSparesCaller ==
  [][\A p \in Procs :
       (pc[p] = "idle" /\ pc'[p] = "mr_res") =>
         LET c == req'[p].complaintId
             N == UserOf(req'[p].user).name
         IN /\ DOMAIN messages' = DOMAIN messages
            /\ \A i \in DOMAIN messages :
                 messages'[i] =
                   IF messages[i].complaintId = c /\ messages[i].name # N
                   THEN [messages[i] EXCEPT !.read = TRUE]
                   ELSE messages[i]
            /\ UpdateManyRead(messages', c, UserName(req'[p].user)) = messages'
    ]_vars
====
